---- MODULE Spec2Model ----
(***************************************************************************)
(* Model of the PGDN scoring library: DefaultScorer.score (the rule-based  *)
(* baseline) and AdvancedScorer.score (the baseline followed by the        *)
(* simulated ML adjustment and the merge).                                 *)
(*                                                                         *)
(* One behaviour is one call of score() on one scan record by one scorer   *)
(* instance.  The rules of DefaultScorer.score run in source order, one    *)
(* action per rule, over the locals score, flags and pgdn_metrics.         *)
(*                                                                         *)
(* Representation                                                          *)
(*   - a Python str is the sequence of its characters (Chars gives the     *)
(*     characters of the literals of the program), so that lower(),        *)
(*     startswith, `in` and f-strings are computed, not assumed;           *)
(*   - a dict slot is Absent (key missing), None (Python None) or Val(x);  *)
(*   - score is kept in tenths of a point: the penalties 18*1.5 and 18*1.2 *)
(*     are 270 and 216 tenths.  Every comparison of the program is against *)
(*     an integer, and every fractional score is at least 0.2 away from an *)
(*     integer, so the comparisons agree with the float arithmetic;        *)
(*   - the report's timestamp (datetime.utcnow()) is not modelled.         *)
(***************************************************************************)
EXTENDS Integers, Sequences, FiniteSets, TLC

VARIABLES cls, version, scan_data, pc, score, flags, pgdn_metrics,
          base_result, ml_adjustments, result, exc

vars == <<cls, version, scan_data, pc, score, flags, pgdn_metrics,
          base_result, ml_adjustments, result, exc>>

(***************************************************************************)
(* Bounds of the explored inputs.                                          *)
(***************************************************************************)
MaxPorts == 11
MaxVulns == 2

(***************************************************************************)
(* Python strings.                                                         *)
(***************************************************************************)
\* the characters of a string literal of the program or of an input
Chars(s) ==
  CASE s = "CRITICAL: Docker socket exposed (unencrypted)" -> <<"C", "R", "I", "T", "I", "C", "A", "L", ":", " ", "D", "o", "c", "k", "e", "r", " ", "s", "o", "c", "k", "e", "t", " ", "e", "x", "p", "o", "s", "e", "d", " ", "(", "u", "n", "e", "n", "c", "r", "y", "p", "t", "e", "d", ")">>
    [] s = "WARNING: Docker TLS socket exposed" -> <<"W", "A", "R", "N", "I", "N", "G", ":", " ", "D", "o", "c", "k", "e", "r", " ", "T", "L", "S", " ", "s", "o", "c", "k", "e", "t", " ", "e", "x", "p", "o", "s", "e", "d">>
    [] s = "SSH port exposed" -> <<"S", "S", "H", " ", "p", "o", "r", "t", " ", "e", "x", "p", "o", "s", "e", "d">>
    [] s = "Alternative SSH ports detected: " -> <<"A", "l", "t", "e", "r", "n", "a", "t", "i", "v", "e", " ", "S", "S", "H", " ", "p", "o", "r", "t", "s", " ", "d", "e", "t", "e", "c", "t", "e", "d", ":", " ">>
    [] s = "TLS configuration critical issues" -> <<"T", "L", "S", " ", "c", "o", "n", "f", "i", "g", "u", "r", "a", "t", "i", "o", "n", " ", "c", "r", "i", "t", "i", "c", "a", "l", " ", "i", "s", "s", "u", "e", "s">>
    [] s = "Vulnerability: " -> <<"V", "u", "l", "n", "e", "r", "a", "b", "i", "l", "i", "t", "y", ":", " ">>
    [] s = " (" -> <<" ", "(">>
    [] s = ")" -> <<")">>
    [] s = "CRITICAL: Database ports exposed: " -> <<"C", "R", "I", "T", "I", "C", "A", "L", ":", " ", "D", "a", "t", "a", "b", "a", "s", "e", " ", "p", "o", "r", "t", "s", " ", "e", "x", "p", "o", "s", "e", "d", ":", " ">>
    [] s = "Excessive port exposure: " -> <<"E", "x", "c", "e", "s", "s", "i", "v", "e", " ", "p", "o", "r", "t", " ", "e", "x", "p", "o", "s", "u", "r", "e", ":", " ">>
    [] s = " ports" -> <<" ", "p", "o", "r", "t", "s">>
    [] s = "[" -> <<"[">>
    [] s = "]" -> <<"]">>
    [] s = ", " -> <<",", " ">>
    [] s = " " -> <<" ">>
    [] s = "ML: Suspicious port pattern detected" -> <<"M", "L", ":", " ", "S", "u", "s", "p", "i", "c", "i", "o", "u", "s", " ", "p", "o", "r", "t", " ", "p", "a", "t", "t", "e", "r", "n", " ", "d", "e", "t", "e", "c", "t", "e", "d">>
    [] s = "ML: High geographic risk detected" -> <<"M", "L", ":", " ", "H", "i", "g", "h", " ", "g", "e", "o", "g", "r", "a", "p", "h", "i", "c", " ", "r", "i", "s", "k", " ", "d", "e", "t", "e", "c", "t", "e", "d">>
    [] s = "ML: Behavioral anomaly detected" -> <<"M", "L", ":", " ", "B", "e", "h", "a", "v", "i", "o", "r", "a", "l", " ", "a", "n", "o", "m", "a", "l", "y", " ", "d", "e", "t", "e", "c", "t", "e", "d">>
    [] s = "ML: Security best practices detected" -> <<"M", "L", ":", " ", "S", "e", "c", "u", "r", "i", "t", "y", " ", "b", "e", "s", "t", " ", "p", "r", "a", "c", "t", "i", "c", "e", "s", " ", "d", "e", "t", "e", "c", "t", "e", "d">>
    [] s = "critical" -> <<"c", "r", "i", "t", "i", "c", "a", "l">>
    [] s = "rce" -> <<"r", "c", "e">>
    [] s = "remote code execution" -> <<"r", "e", "m", "o", "t", "e", " ", "c", "o", "d", "e", " ", "e", "x", "e", "c", "u", "t", "i", "o", "n">>
    [] s = "unauthenticated" -> <<"u", "n", "a", "u", "t", "h", "e", "n", "t", "i", "c", "a", "t", "e", "d">>
    [] s = "high" -> <<"h", "i", "g", "h">>
    [] s = "privilege escalation" -> <<"p", "r", "i", "v", "i", "l", "e", "g", "e", " ", "e", "s", "c", "a", "l", "a", "t", "i", "o", "n">>
    [] s = "buffer overflow" -> <<"b", "u", "f", "f", "e", "r", " ", "o", "v", "e", "r", "f", "l", "o", "w">>
    [] s = "medium" -> <<"m", "e", "d", "i", "u", "m">>
    [] s = "dos" -> <<"d", "o", "s">>
    [] s = "denial of service" -> <<"d", "e", "n", "i", "a", "l", " ", "o", "f", " ", "s", "e", "r", "v", "i", "c", "e">>
    [] s = "xss" -> <<"x", "s", "s">>
    [] s = "let's encrypt" -> <<"l", "e", "t", "'", "s", " ", "e", "n", "c", "r", "y", "p", "t">>
    [] s = "digicert" -> <<"d", "i", "g", "i", "c", "e", "r", "t">>
    [] s = "comodo" -> <<"c", "o", "m", "o", "d", "o">>
    [] s = "globalsign" -> <<"g", "l", "o", "b", "a", "l", "s", "i", "g", "n">>
    [] s = "Self-signed" -> <<"S", "e", "l", "f", "-", "s", "i", "g", "n", "e", "d">>
    [] s = "CRITICAL" -> <<"C", "R", "I", "T", "I", "C", "A", "L">>
    [] s = "HIGH" -> <<"H", "I", "G", "H">>
    [] s = "MEDIUM" -> <<"M", "E", "D", "I", "U", "M">>
    [] s = "LOW" -> <<"L", "O", "W">>
    [] s = "docker" -> <<"d", "o", "c", "k", "e", "r">>
    [] s = "ssh" -> <<"s", "s", "h">>
    [] s = "tls" -> <<"t", "l", "s">>
    [] s = "database" -> <<"d", "a", "t", "a", "b", "a", "s", "e">>
    [] s = "vuln_" -> <<"v", "u", "l", "n", "_">>
    [] s = "192.168." -> <<"1", "9", "2", ".", "1", "6", "8", ".">>
    [] s = "10." -> <<"1", "0", ".">>
    [] s = "172." -> <<"1", "7", "2", ".">>
    [] s = "127." -> <<"1", "2", "7", ".">>
    [] s = "unknown" -> <<"u", "n", "k", "n", "o", "w", "n">>
    [] s = "" -> <<>>
    [] s = "DigiCert" -> <<"D", "i", "g", "i", "C", "e", "r", "t">>
    [] s = "Let's Encrypt" -> <<"L", "e", "t", "'", "s", " ", "E", "n", "c", "r", "y", "p", "t">>
    [] s = "Acme Self-signed CA" -> <<"A", "c", "m", "e", " ", "S", "e", "l", "f", "-", "s", "i", "g", "n", "e", "d", " ", "C", "A">>
    [] s = "2030-01-01" -> <<"2", "0", "3", "0", "-", "0", "1", "-", "0", "1">>
    [] s = "CVE-1" -> <<"C", "V", "E", "-", "1">>
    [] s = "CVE-2" -> <<"C", "V", "E", "-", "2">>
    [] s = "CVE-3" -> <<"C", "V", "E", "-", "3">>
    [] s = "Remote Code Execution" -> <<"R", "e", "m", "o", "t", "e", " ", "C", "o", "d", "e", " ", "E", "x", "e", "c", "u", "t", "i", "o", "n">>
    [] s = "Buffer Overflow" -> <<"B", "u", "f", "f", "e", "r", " ", "O", "v", "e", "r", "f", "l", "o", "w">>
    [] s = "minor XSS issue" -> <<"m", "i", "n", "o", "r", " ", "X", "S", "S", " ", "i", "s", "s", "u", "e">>
    [] s = "info leak" -> <<"i", "n", "f", "o", " ", "l", "e", "a", "k">>
    [] s = "10.0.0.1" -> <<"1", "0", ".", "0", ".", "0", ".", "1">>
    [] s = "127.0.0.1" -> <<"1", "2", "7", ".", "0", ".", "0", ".", "1">>
    [] s = "8.8.8.8" -> <<"8", ".", "8", ".", "8", ".", "8">>
    [] s = "4.4.4.4" -> <<"4", ".", "4", ".", "4", ".", "4">>

LowerChar(c) ==
  CASE c = "A" -> "a" [] c = "B" -> "b" [] c = "C" -> "c" [] c = "D" -> "d"
    [] c = "E" -> "e" [] c = "F" -> "f" [] c = "G" -> "g" [] c = "H" -> "h"
    [] c = "I" -> "i" [] c = "J" -> "j" [] c = "K" -> "k" [] c = "L" -> "l"
    [] c = "M" -> "m" [] c = "N" -> "n" [] c = "O" -> "o" [] c = "P" -> "p"
    [] c = "Q" -> "q" [] c = "R" -> "r" [] c = "S" -> "s" [] c = "T" -> "t"
    [] c = "U" -> "u" [] c = "V" -> "v" [] c = "W" -> "w" [] c = "X" -> "x"
    [] c = "Y" -> "y" [] c = "Z" -> "z" [] OTHER -> c

\* str.lower()
Lower(s) == [i \in 1..Len(s) |-> LowerChar(s[i])]

\* sub in s, for strings
Contains(s, sub) ==
  \E i \in 1..(Len(s) - Len(sub) + 1) : SubSeq(s, i, i + Len(sub) - 1) = sub

\* s.startswith(p)
StartsWith(s, p) == Len(s) >= Len(p) /\ SubSeq(s, 1, Len(p)) = p

Digit(d) ==
  CASE d = 0 -> "0" [] d = 1 -> "1" [] d = 2 -> "2" [] d = 3 -> "3"
    [] d = 4 -> "4" [] d = 5 -> "5" [] d = 6 -> "6" [] d = 7 -> "7"
    [] d = 8 -> "8" [] d = 9 -> "9"

\* str(n) of a non-negative int, as an f-string prints it
RECURSIVE IntToChars(_)
IntToChars(n) ==
  IF n < 10 THEN <<Digit(n)>> ELSE IntToChars(n \div 10) \o <<Digit(n % 10)>>

\* str(list of int): "[a, b, c]"
RECURSIVE JoinInts(_)
JoinInts(ps) ==
  IF ps = <<>> THEN <<>>
  ELSE IF Len(ps) = 1 THEN IntToChars(ps[1])
  ELSE IntToChars(ps[1]) \o Chars(", ") \o JoinInts(Tail(ps))

ListRepr(ps) == Chars("[") \o JoinInts(ps) \o Chars("]")

(***************************************************************************)
(* Python values and dict access.                                          *)
(***************************************************************************)
Absent == [tag |-> "absent"]
None == [tag |-> "none"]
Val(x) == [tag |-> "val", val |-> x]

\* d.get(key, default): the default only replaces a missing key
Get(d, key, default) == IF d[key].tag = "absent" THEN default ELSE d[key]

\* d.get(key): None for a missing key
Get1(d, key) == Get(d, key, None)

\* x in ports, for a list
InList(x, ports) == \E i \in 1..Len(ports) : ports[i] = x

\* [p for p in ports if p in wanted]
RECURSIVE Filter(_, _)
Filter(ports, wanted) ==
  IF ports = <<>> THEN <<>>
  ELSE IF Head(ports) \in wanted THEN <<Head(ports)>> \o Filter(Tail(ports), wanted)
  ELSE Filter(Tail(ports), wanted)

\* d[key] = value on a dict kept as a function
Put(d, key, value) == [k \in DOMAIN d \cup {key} |-> IF k = key THEN value ELSE d[k]]

EmptyDict == [k \in {} |-> "LOW"]

(***************************************************************************)
(* DefaultScorer                                                           *)
(***************************************************************************)
\* self.weights
weights == [docker_exposure |-> 35, ssh_open |-> 12, tls_issues |-> 28,
            vulnerabilities |-> 18, open_ports |-> 2, database_exposure |-> 30]

\* a whole number of points, in tenths
Tenths(n) == n * 10

\* self.version after __init__ of the class
VersionOf(c) == IF c = "AdvancedScorer" THEN "2.0.0-advanced" ELSE "1.0.0"

\* the locals of score() before the first rule
Start(ver) ==
  [score |-> Tenths(100),
   flags |-> <<>>,
   pgdn_metrics |-> [scorer_version |-> ver, risk_factors |-> EmptyDict,
                     security_grade |-> "A+", compliance_score |-> 100],
   exc |-> "none"]

\* open_ports = scan_data.get('open_ports', [])
OpenPortsOf(sd) == Get(sd, "open_ports", Val(<<>>))

Raise(st, e) == [st EXCEPT !.exc = e]

\* DockerStep with the grade left alone when port 2375 is open
DockerStep_GradeKept(sd, st) ==
  LET open_ports == OpenPortsOf(sd) IN
  IF open_ports.tag = "none" THEN Raise(st, "TypeError")
  ELSE IF InList(2375, open_ports.val) THEN
    [st EXCEPT !.score = @ - Tenths(weights.docker_exposure),
               !.flags = Append(@, Chars("CRITICAL: Docker socket exposed (unencrypted)")),
               !.pgdn_metrics.risk_factors = Put(@, Chars("docker"), "CRITICAL")]
  ELSE IF InList(2376, open_ports.val) THEN
    [st EXCEPT !.score = @ - Tenths(15),
               !.flags = Append(@, Chars("WARNING: Docker TLS socket exposed")),
               !.pgdn_metrics.risk_factors = Put(@, Chars("docker"), "MEDIUM")]
  ELSE st

\* Enhanced Docker analysis
DockerStep(sd, st) ==
  LET open_ports == OpenPortsOf(sd) IN
  IF open_ports.tag = "none" THEN Raise(st, "TypeError")
  ELSE IF InList(2375, open_ports.val) THEN
    [st EXCEPT !.score = @ - Tenths(weights.docker_exposure),
               !.flags = Append(@, Chars("CRITICAL: Docker socket exposed (unencrypted)")),
               !.pgdn_metrics.risk_factors = Put(@, Chars("docker"), "CRITICAL"),
               !.pgdn_metrics.security_grade = "F"]
  ELSE IF InList(2376, open_ports.val) THEN
    [st EXCEPT !.score = @ - Tenths(15),
               !.flags = Append(@, Chars("WARNING: Docker TLS socket exposed")),
               !.pgdn_metrics.risk_factors = Put(@, Chars("docker"), "MEDIUM")]
  ELSE st

\* Enhanced SSH analysis, then the non-standard SSH ports
SshStep(sd, st) ==
  LET open_ports == OpenPortsOf(sd).val
      st1 == IF InList(22, open_ports)
             THEN [st EXCEPT !.score = @ - Tenths(weights.ssh_open),
                             !.flags = Append(@, Chars("SSH port exposed")),
                             !.pgdn_metrics.risk_factors = Put(@, Chars("ssh"), "MEDIUM")]
             ELSE st
      ssh_alt_ports == Filter(open_ports, {2222, 2200, 2022})
  IN IF ssh_alt_ports # <<>>
     THEN [st1 EXCEPT !.score = @ - Tenths(8),
                      !.flags = Append(@, Chars("Alternative SSH ports detected: ")
                                          \o ListRepr(ssh_alt_ports))]
     ELSE st1

\* not tls, for the value of scan_data.get("tls", {}): None and {} are falsy
TlsFalsy(tls) ==
  \/ tls.tag = "none"
  \/ tls.val.issuer.tag = "absent" /\ tls.val.expiry.tag = "absent"

\* not s, for a str or None
StrFalsy(s) == s.tag = "none" \/ s.val = <<>>

\* not tls or tls.get("issuer") in (None, "Self-signed") or not tls.get("expiry")
TlsIssues(tls) ==
  \/ TlsFalsy(tls)
  \/ Get1(tls.val, "issuer") = None
  \/ Get1(tls.val, "issuer") = Val(Chars("Self-signed"))
  \/ StrFalsy(Get1(tls.val, "expiry"))

\* Grade TLS quality
TlsGrade(tls) ==
  LET issuer == Lower(Get(tls.val, "issuer", Val(Chars(""))).val) IN
  IF Contains(issuer, Chars("let's encrypt")) THEN "B"
  ELSE IF \E ca \in {"digicert", "comodo", "globalsign"} : Contains(issuer, Chars(ca)) THEN "A"
  ELSE "C"

\* TlsStep with the grade set to D whatever it was
TlsStep_AlwaysD(sd, st) ==
  LET tls == Get(sd, "tls", Val([issuer |-> Absent, expiry |-> Absent])) IN
  IF TlsIssues(tls) THEN
    [st EXCEPT !.score = @ - Tenths(weights.tls_issues),
               !.flags = Append(@, Chars("TLS configuration critical issues")),
               !.pgdn_metrics.risk_factors = Put(@, Chars("tls"), "CRITICAL"),
               !.pgdn_metrics.security_grade = "D"]
  ELSE [st EXCEPT !.pgdn_metrics = Put(@, "tls_grade", TlsGrade(tls))]

\* Enhanced TLS analysis
TlsStep(sd, st) ==
  LET tls == Get(sd, "tls", Val([issuer |-> Absent, expiry |-> Absent])) IN
  IF TlsIssues(tls) THEN
    [st EXCEPT !.score = @ - Tenths(weights.tls_issues),
               !.flags = Append(@, Chars("TLS configuration critical issues")),
               !.pgdn_metrics.risk_factors = Put(@, Chars("tls"), "CRITICAL"),
               !.pgdn_metrics.security_grade = IF @ \notin {"F"} THEN "D" ELSE @]
  ELSE [st EXCEPT !.pgdn_metrics = Put(@, "tls_grade", TlsGrade(tls))]

\* any(keyword in text for keyword in keywords)
AnyKeyword(text, keywords) == \E keyword \in keywords : Contains(text, Chars(keyword))

_assess_vuln_severity(vuln_id, vuln_desc) ==
  LET vuln_text == Lower(vuln_id \o Chars(" ") \o vuln_desc) IN
  IF AnyKeyword(vuln_text, {"critical", "rce", "remote code execution", "unauthenticated"})
  THEN "CRITICAL"
  ELSE IF AnyKeyword(vuln_text, {"high", "privilege escalation", "buffer overflow"})
  THEN "HIGH"
  ELSE IF AnyKeyword(vuln_text, {"medium", "dos", "denial of service", "xss"})
  THEN "MEDIUM"
  ELSE "LOW"

\* penalty = weights['vulnerabilities'], times 1.5 or 1.2, in tenths
VulnPenalty(severity) ==
  IF severity = "CRITICAL" THEN weights.vulnerabilities * 15
  ELSE IF severity = "HIGH" THEN weights.vulnerabilities * 12
  ELSE Tenths(weights.vulnerabilities)

\* for vuln_id, vuln_desc in vulns.items()
RECURSIVE VulnLoop(_, _)
VulnLoop(items, st) ==
  IF items = <<>> THEN st
  ELSE LET vuln_id == Head(items)[1]
           vuln_desc == Head(items)[2]
           severity == _assess_vuln_severity(vuln_id, vuln_desc)
       IN VulnLoop(Tail(items),
            [st EXCEPT !.score = @ - VulnPenalty(severity),
                       !.flags = Append(@, Chars("Vulnerability: ") \o vuln_id \o Chars(" (")
                                           \o Chars(severity) \o Chars(")")),
                       !.pgdn_metrics.risk_factors = Put(@, Chars("vuln_") \o vuln_id, severity)])

\* Enhanced vulnerability analysis
VulnStep(sd, st) ==
  LET vulns == Get(sd, "vulns", Val(<<>>)) IN
  IF vulns.tag = "none" THEN Raise(st, "AttributeError")
  ELSE VulnLoop(vulns.val, st)

\* Database exposure analysis
DatabaseStep(sd, st) ==
  LET db_ports == Filter(OpenPortsOf(sd).val, {3306, 5432, 27017, 6379, 1433, 1521}) IN
  IF db_ports # <<>> THEN
    [st EXCEPT !.score = @ - Tenths(weights.database_exposure),
               !.flags = Append(@, Chars("CRITICAL: Database ports exposed: ") \o ListRepr(db_ports)),
               !.pgdn_metrics.risk_factors = Put(@, Chars("database"), "CRITICAL"),
               !.pgdn_metrics.security_grade = "F"]
  ELSE st

\* Port exposure penalty
PortCountStep(sd, st) ==
  LET open_ports == OpenPortsOf(sd).val IN
  IF Len(open_ports) > 5 THEN
    [st EXCEPT !.score = @ - Tenths((Len(open_ports) - 5) * weights.open_ports),
               !.flags = Append(@, Chars("Excessive port exposure: ")
                                   \o IntToChars(Len(open_ports)) \o Chars(" ports"))]
  ELSE st

Max(a, b) == IF a >= b THEN a ELSE b
Min(a, b) == IF a <= b THEN a ELSE b

\* Clamp without the floor
Clamp_NoFloor(s) == Min(Tenths(100), s)

\* max(0, min(100, score)), in tenths
Clamp(s) == Max(0, Min(Tenths(100), s))

\* len([f for f in flags if 'CRITICAL' in f])
ComplianceIssues(fs) == Cardinality({i \in 1..Len(fs) : Contains(fs[i], Chars("CRITICAL"))})

_calculate_pgdn_risk(s, metrics) ==
  IF s >= Tenths(95) /\ metrics.security_grade \in {"A+", "A"} THEN "MINIMAL"
  ELSE IF s >= Tenths(85) /\ metrics.security_grade \in {"A+", "A", "B"} THEN "LOW"
  ELSE IF s >= Tenths(70) THEN "MODERATE"
  ELSE IF s >= Tenths(50) THEN "HIGH"
  ELSE "CRITICAL"

\* json.dumps(scan_data, sort_keys=True): the keys that are present, in
\* sorted order, nested dicts by key; a dict of vulnerabilities loses its
\* insertion order
RECURSIVE VulnDict(_)
VulnDict(items) ==
  IF items = <<>> THEN EmptyDict
  ELSE Put(VulnDict(SubSeq(items, 1, Len(items) - 1)), items[Len(items)][1], items[Len(items)][2])

CanonicalJson(sd) ==
  LET keys == <<"docker_exposure", "ip", "open_ports", "tls", "vulns">>
      value(k) == IF k = "vulns" /\ sd[k].tag = "val" THEN Val(VulnDict(sd[k].val)) ELSE sd[k]
      RECURSIVE dump(_)
      dump(i) == IF i > Len(keys) THEN <<>>
                 ELSE IF sd[keys[i]].tag = "absent" THEN dump(i + 1)
                 ELSE <<<<keys[i], value(keys[i])>>>> \o dump(i + 1)
  IN dump(1)

\* hashlib.sha256(...).hexdigest(): the digest stands for its argument
Sha256(text) == <<"sha256", text>>

\* Compliance scoring, score bounds, risk classification and the returned dict
Finish(sd, st) ==
  LET metrics == [st.pgdn_metrics EXCEPT
                    !.compliance_score = Max(0, 100 - ComplianceIssues(st.flags) * 25)]
      s == Clamp(st.score)
      risk_level == _calculate_pgdn_risk(s, metrics)
  IN [ip |-> Get(sd, "ip", Val(Chars("unknown"))),
      score |-> s,
      flags |-> st.flags,
      summary |-> [score |-> s, version |-> metrics.scorer_version,
                   grade |-> metrics.security_grade, risk |-> risk_level],
      hash |-> Sha256(CanonicalJson(sd)),
      docker_exposure |-> Get(sd, "docker_exposure", Val([exposed |-> FALSE])),
      pgdn_metrics |-> metrics,
      pgdn_risk_level |-> risk_level,
      scorer_id |-> "pgdn.scoring.default_scorer.DefaultScorer",
      enhanced_analysis |-> TRUE]

\* the rules of score() in source order, an exception ending the call
RunRules(ver, sd) ==
  LET s1 == DockerStep(sd, Start(ver))
      s2 == IF s1.exc # "none" THEN s1 ELSE SshStep(sd, s1)
      s3 == IF s2.exc # "none" THEN s2 ELSE TlsStep(sd, s2)
      s4 == IF s3.exc # "none" THEN s3 ELSE VulnStep(sd, s3)
      s5 == IF s4.exc # "none" THEN s4 ELSE DatabaseStep(sd, s4)
  IN IF s5.exc # "none" THEN s5 ELSE PortCountStep(sd, s5)

\* DefaultScorer.score of an instance whose version is ver: the report, or
\* the exception raised
DefaultScore(ver, sd) ==
  LET st == RunRules(ver, sd) IN
  IF st.exc # "none" THEN [raised |-> st.exc] ELSE Finish(sd, st)

(***************************************************************************)
(* AdvancedScorer                                                          *)
(***************************************************************************)
_is_suspicious_port_pattern(ports) ==
  LET attack_patterns == <<<<80, 443, 8080, 8443>>, <<21, 22, 23, 25>>, <<3306, 5432, 27017>>>> IN
  \/ Len(ports) > 10
  \/ \E n \in 1..Len(attack_patterns) :
       \A k \in 1..Len(attack_patterns[n]) : InList(attack_patterns[n][k], ports)

\* hashlib.md5(ip.encode()).hexdigest()[:8], tabulated for the addresses of
\* the explored records
Md5Head(ip) ==
  CASE ip = Chars("") -> <<"d", "4", "1", "d", "8", "c", "d", "9">>
    [] ip = Chars("8.8.8.8") -> <<"4", "0", "f", "f", "4", "4", "d", "9">>
    [] ip = Chars("4.4.4.4") -> <<"a", "7", "0", "c", "6", "1", "f", "6">>
    [] ip = Chars("127.0.0.1") -> <<"f", "5", "2", "8", "7", "6", "4", "d">>
    [] ip = Chars("10.0.0.1") -> <<"1", "9", "0", "d", "a", "f", "a", "b">>

HexValue(c) ==
  CASE c = "0" -> 0 [] c = "1" -> 1 [] c = "2" -> 2 [] c = "3" -> 3
    [] c = "4" -> 4 [] c = "5" -> 5 [] c = "6" -> 6 [] c = "7" -> 7
    [] c = "8" -> 8 [] c = "9" -> 9 [] c = "a" -> 10 [] c = "b" -> 11
    [] c = "c" -> 12 [] c = "d" -> 13 [] c = "e" -> 14 [] c = "f" -> 15

\* int(hex, 16) % m, digit by digit so that no intermediate value exceeds
\* 16 * m
RECURSIVE HexMod(_, _)
HexMod(hex, m) ==
  IF hex = <<>> THEN 0
  ELSE (HexMod(SubSeq(hex, 1, Len(hex) - 1), m) * 16 + HexValue(hex[Len(hex)])) % m

\* the risk in hundredths: 0.1 is 10, (ip_hash % 100) / 100.0 is ip_hash % 100
_assess_geographic_risk(ip) ==
  IF StartsWith(ip, Chars("192.168.")) \/ StartsWith(ip, Chars("10."))
     \/ StartsWith(ip, Chars("172."))
  THEN 10
  ELSE IF StartsWith(ip, Chars("127.")) THEN 0
  ELSE HexMod(Md5Head(ip), 100)

_detect_behavioral_anomaly(sd) ==
  LET open_ports == OpenPortsOf(sd).val
      has_ssh == InList(22, open_ports)
      has_db == \E port \in {3306, 5432, 27017} : InList(port, open_ports)
      has_web == \E port \in {80, 443} : InList(port, open_ports)
      has_docker == InList(2375, open_ports)
  IN has_ssh /\ has_db /\ has_web /\ has_docker

\* tls and tls.get('issuer') and 'Self-signed' not in str(tls.get('issuer', ''))
GoodTls(tls) ==
  /\ ~TlsFalsy(tls)
  /\ ~StrFalsy(Get1(tls.val, "issuer"))
  /\ ~Contains(Get(tls.val, "issuer", Val(Chars(""))).val, Chars("Self-signed"))

_detect_security_best_practices(sd) ==
  LET open_ports == OpenPortsOf(sd).val
      tls == Get(sd, "tls", Val([issuer |-> Absent, expiry |-> Absent]))
      has_https == InList(443, open_ports)
      has_http == InList(80, open_ports)
  IN has_https /\ ~has_http /\ GoodTls(tls) /\ Len(open_ports) <= 3

_calculate_ml_risk_level(score_adjustment) ==
  IF score_adjustment >= 0 THEN "LOW"
  ELSE IF score_adjustment >= -10 THEN "MODERATE"
  ELSE IF score_adjustment >= -20 THEN "HIGH"
  ELSE "CRITICAL"

\* one rule of _apply_ml_analysis: the adjustment and the flag when it fires
MlRule(fired, adjustment, flag, acc) ==
  IF fired
  THEN [score_adjustment |-> acc.score_adjustment + adjustment,
        ml_flags |-> Append(acc.ml_flags, Chars(flag))]
  ELSE acc

\* score_adjustment is in whole points, ml_confidence in hundredths
_apply_ml_analysis(sd) ==
  LET open_ports == OpenPortsOf(sd).val
      ip == Get(sd, "ip", Val(Chars(""))).val
      a0 == [score_adjustment |-> 0, ml_flags |-> <<>>]
      a1 == MlRule(_is_suspicious_port_pattern(open_ports), -15,
                   "ML: Suspicious port pattern detected", a0)
      a2 == MlRule(_assess_geographic_risk(ip) > 70, -10,
                   "ML: High geographic risk detected", a1)
      a3 == MlRule(_detect_behavioral_anomaly(sd), -20,
                   "ML: Behavioral anomaly detected", a2)
      a4 == MlRule(_detect_security_best_practices(sd), 5,
                   "ML: Security best practices detected", a3)
  IN [score_adjustment |-> a4.score_adjustment,
      ml_flags |-> a4.ml_flags,
      ml_risk_level |-> _calculate_ml_risk_level(a4.score_adjustment),
      ml_confidence |-> 85,
      analysis_methods |-> <<"port_pattern", "geo_risk", "behavioral", "best_practices">>]

\* {**base_result, "score": ..., ...}
Override(d, more) == [k \in DOMAIN d \cup DOMAIN more |-> IF k \in DOMAIN more THEN more[k] ELSE d[k]]

\* Merge with the ML flags put before the baseline flags
Merge_MlFlagsFirst(ver, base, ml) ==
  LET adjusted_score == Clamp(base.score + Tenths(ml.score_adjustment))
      enhanced_flags == ml.ml_flags \o base.flags
  IN Override(base,
       [score |-> adjusted_score,
        flags |-> enhanced_flags,
        summary |-> [score |-> adjusted_score, version |-> ver, ml_risk |-> ml.ml_risk_level],
        ml_analysis |-> ml,
        scorer_id |-> "pgdn.scoring.advanced_scorer.AdvancedScorer",
        ml_enhanced |-> TRUE])

\* Merge with the risk level classified again from the adjusted score
Merge_RiskRecomputed(ver, base, ml) ==
  LET adjusted_score == Clamp(base.score + Tenths(ml.score_adjustment))
      enhanced_flags == base.flags \o ml.ml_flags
  IN Override(base,
       [score |-> adjusted_score,
        flags |-> enhanced_flags,
        summary |-> [score |-> adjusted_score, version |-> ver, ml_risk |-> ml.ml_risk_level],
        pgdn_risk_level |-> _calculate_pgdn_risk(adjusted_score, base.pgdn_metrics),
        ml_analysis |-> ml,
        scorer_id |-> "pgdn.scoring.advanced_scorer.AdvancedScorer",
        ml_enhanced |-> TRUE])

\* the adjusted score, the enhanced flags and summary, and the merged dict
Merge(ver, base, ml) ==
  LET adjusted_score == Clamp(base.score + Tenths(ml.score_adjustment))
      enhanced_flags == base.flags \o ml.ml_flags
  IN Override(base,
       [score |-> adjusted_score,
        flags |-> enhanced_flags,
        summary |-> [score |-> adjusted_score, version |-> ver, ml_risk |-> ml.ml_risk_level],
        ml_analysis |-> ml,
        scorer_id |-> "pgdn.scoring.advanced_scorer.AdvancedScorer",
        ml_enhanced |-> TRUE])

(***************************************************************************)
(* The explored scan records.                                              *)
(***************************************************************************)
PortUniverse == <<22, 25, 80, 443, 2222, 2375, 2376, 3306, 5432, 8080, 8443, 27017>>

\* the ports of PortUniverse at the positions S, in order
RECURSIVE ListAt(_)
ListAt(S) ==
  IF S = {} THEN <<>>
  ELSE LET i == CHOOSE j \in S : \A k \in S : j <= k
       IN <<PortUniverse[i]>> \o ListAt(S \ {i})

PortLists ==
  {ListAt(S) : S \in {T \in SUBSET (1..Len(PortUniverse)) : Cardinality(T) <= MaxPorts}}

FewPortLists ==
  {<<>>, <<443>>, <<80, 443>>, <<443, 2375>>, <<22, 80, 2375, 3306>>, <<443, 8080, 8443>>}

TlsDict(issuer, expiry) == Val([issuer |-> issuer, expiry |-> expiry])

ValidTls == TlsDict(Val(Chars("DigiCert")), Val(Chars("2030-01-01")))

Issuers ==
  {Absent, None} \cup
  {Val(Chars(i)) : i \in {"", "Self-signed", "Acme Self-signed CA", "DigiCert", "Let's Encrypt"}}

Expiries == {Absent, None, Val(Chars("")), Val(Chars("2030-01-01"))}

TlsValues == {Absent, None} \cup {TlsDict(i, e) : i \in Issuers, e \in Expiries}

VulnIds == <<Chars("CVE-1"), Chars("CVE-2"), Chars("CVE-3")>>

VulnDescs ==
  {Chars(d) : d \in {"Remote Code Execution", "Buffer Overflow", "minor XSS issue", "info leak"}}

\* the dicts of n vulnerabilities, in insertion order
VulnItems(n) == {[i \in 1..n |-> <<VulnIds[i], descs[i]>>] : descs \in [1..n -> VulnDescs]}

VulnValues ==
  {Absent, None} \cup {Val(v) : v \in UNION {VulnItems(n) : n \in 0..Min(MaxVulns, Len(VulnIds))}}

Ips == {Absent} \cup {Val(Chars(i)) : i \in {"10.0.0.1", "127.0.0.1", "8.8.8.8", "4.4.4.4"}}

DockerValues == {Absent, None, Val([exposed |-> TRUE])}

\* every port list, with and without a valid certificate
PortRecords ==
  [ip : {Val(Chars("10.0.0.1")), Val(Chars("4.4.4.4"))},
   open_ports : {Val(l) : l \in PortLists},
   tls : {ValidTls, Absent},
   vulns : {Absent},
   docker_exposure : {Absent}]

\* every shape of the tls field
TlsRecords ==
  [ip : {Val(Chars("10.0.0.1")), Val(Chars("4.4.4.4")), Absent},
   open_ports : {Absent, None} \cup {Val(l) : l \in FewPortLists},
   tls : TlsValues,
   vulns : {Absent, Val(<<<<Chars("CVE-1"), Chars("Buffer Overflow")>>>>)},
   docker_exposure : DockerValues]

\* every dict of vulnerabilities
VulnRecords ==
  [ip : Ips,
   open_ports : {Absent, Val(<<443>>), Val(<<22, 80, 2375, 3306>>)},
   tls : {ValidTls, None},
   vulns : VulnValues,
   docker_exposure : {Absent}]

Records == PortRecords \cup TlsRecords \cup VulnRecords

(***************************************************************************)
(* One call of score().                                                    *)
(***************************************************************************)
Unset == [tag |-> "unset"]

Frame == [score |-> score, flags |-> flags, pgdn_metrics |-> pgdn_metrics, exc |-> exc]

\* the locals after a rule; an exception ends the call
Locals(st, next) ==
  /\ score' = st.score
  /\ flags' = st.flags
  /\ pgdn_metrics' = st.pgdn_metrics
  /\ exc' = st.exc
  /\ pc' = IF st.exc # "none" THEN "raised" ELSE next
  /\ UNCHANGED <<cls, version, scan_data, base_result, ml_adjustments, result>>

\* a constructed scorer, and score() entered on a record
Init ==
  /\ cls \in {"DefaultScorer", "AdvancedScorer"}
  /\ version = VersionOf(cls)
  /\ scan_data \in Records
  /\ pc = "docker"
  /\ score = Start(version).score
  /\ flags = Start(version).flags
  /\ pgdn_metrics = Start(version).pgdn_metrics
  /\ exc = Start(version).exc
  /\ base_result = Unset
  /\ ml_adjustments = Unset
  /\ result = Unset

DockerRule == pc = "docker" /\ Locals(DockerStep(scan_data, Frame), "ssh")

SshRule == pc = "ssh" /\ Locals(SshStep(scan_data, Frame), "tls")

TlsRule == pc = "tls" /\ Locals(TlsStep(scan_data, Frame), "vulns")

VulnRule == pc = "vulns" /\ Locals(VulnStep(scan_data, Frame), "database")

DatabaseRule == pc = "database" /\ Locals(DatabaseStep(scan_data, Frame), "port_count")

PortCountRule == pc = "port_count" /\ Locals(PortCountStep(scan_data, Frame), "finish")

\* DefaultScorer.score returns: to the caller, or to AdvancedScorer.score
ReturnBase ==
  /\ pc = "finish"
  /\ LET report == Finish(scan_data, Frame) IN
       /\ score' = report.score
       /\ pgdn_metrics' = report.pgdn_metrics
       /\ IF cls = "AdvancedScorer"
          THEN base_result' = report /\ pc' = "ml" /\ UNCHANGED result
          ELSE result' = report /\ pc' = "returned" /\ UNCHANGED base_result
  /\ UNCHANGED <<cls, version, scan_data, flags, ml_adjustments, exc>>

\* ml_adjustments = self._apply_ml_analysis(scan_data)
MlAnalysis ==
  /\ pc = "ml"
  /\ ml_adjustments' = _apply_ml_analysis(scan_data)
  /\ pc' = "merge"
  /\ UNCHANGED <<cls, version, scan_data, score, flags, pgdn_metrics, base_result, result, exc>>

\* AdvancedScorer.score returns the merged result
ReturnAdvanced ==
  /\ pc = "merge"
  /\ result' = Merge(version, base_result, ml_adjustments)
  /\ pc' = "returned"
  /\ UNCHANGED <<cls, version, scan_data, score, flags, pgdn_metrics, base_result,
                 ml_adjustments, exc>>

Next ==
  \/ DockerRule
  \/ SshRule
  \/ TlsRule
  \/ VulnRule
  \/ DatabaseRule
  \/ PortCountRule
  \/ ReturnBase
  \/ MlAnalysis
  \/ ReturnAdvanced

Spec == Init /\ [][Next]_vars

(***************************************************************************)
(* Properties.                                                             *)
(***************************************************************************)
Returned == pc = "returned"

\* flag is one of the flags fs
HasFlag(fs, flag) == \E i \in 1..Len(fs) : fs[i] = Chars(flag)

\* the record lists port p as open
PortOpen(sd, p) ==
  /\ sd.open_ports.tag = "val"
  /\ \E i \in 1..Len(sd.open_ports.val) : sd.open_ports.val[i] = p

\* the number of open ports of the record
PortCount(sd) == IF sd.open_ports.tag = "val" THEN Len(sd.open_ports.val) ELSE 0

\* the report a DefaultScorer instance returns for the record
BaselineReport(sd) == DefaultScore(VersionOf("DefaultScorer"), sd)

\* x limited to 0..100 points, in tenths
Limited(x) == IF x < 0 THEN 0 ELSE IF x > 1000 THEN 1000 ELSE x

\* C1: the score of every returned report, of either scorer, is between 0
\* and 100 points.
C1_ScoreInRange == Returned => (0 <= result.score /\ result.score <= 1000)

\* the rules took the score below zero (and the ML adjustment did not bring
\* it back), and the report says 0
C1_Witness ==
  /\ Returned
  /\ cls = "AdvancedScorer"
  /\ RunRules(version, scan_data).score < 0
  /\ RunRules(version, scan_data).score + Tenths(ml_adjustments.score_adjustment) < 0
  /\ result.score = 0

\* the ML rules that fire on the record, in the order of the analysis, each
\* with its adjustment in points and its flag
MlFired(sd) ==
  LET ports == IF sd.open_ports.tag = "val" THEN sd.open_ports.val ELSE <<>>
      ip == IF sd.ip.tag = "val" THEN sd.ip.val ELSE <<>>
      rules == << <<_is_suspicious_port_pattern(ports), -15, "ML: Suspicious port pattern detected">>,
                  <<_assess_geographic_risk(ip) > 70, -10, "ML: High geographic risk detected">>,
                  <<_detect_behavioral_anomaly(sd), -20, "ML: Behavioral anomaly detected">>,
                  <<_detect_security_best_practices(sd), 5, "ML: Security best practices detected">> >>
  IN SelectSeq(rules, LAMBDA r : r[1])

RECURSIVE SumAdjustments(_)
SumAdjustments(rules) == IF rules = <<>> THEN 0 ELSE Head(rules)[2] + SumAdjustments(Tail(rules))

\* C2: the enhanced score is the baseline score plus the adjustments of the
\* fired ML rules, limited to 0..100, and the enhanced flags are the baseline
\* flags followed by the flags of the fired ML rules in rule order.
C2_EnhancedScoreAndFlags ==
  (Returned /\ cls = "AdvancedScorer") =>
    LET fired == MlFired(scan_data)
        b == BaselineReport(scan_data)
    IN /\ result.score = Limited(b.score + 10 * SumAdjustments(fired))
       /\ result.flags = b.flags \o [i \in 1..Len(fired) |-> Chars(fired[i][3])]

\* baseline flags, two ML rules fired, and a score that neither limit cut
C2_Witness ==
  /\ Returned
  /\ cls = "AdvancedScorer"
  /\ base_result.flags # <<>>
  /\ Len(ml_adjustments.ml_flags) >= 2
  /\ result.score > 0
  /\ result.score < base_result.score

\* every flag of fs is one of the flags gs
FlagsKept(fs, gs) == \A i \in 1..Len(fs) : \E j \in 1..Len(gs) : gs[j] = fs[i]

\* the fields of a baseline report that the merge does not name
PassedFields == {"ip", "hash", "docker_exposure", "pgdn_risk_level", "enhanced_analysis"}

\* C3 as stated: the enhanced report has the ip, hash, docker_exposure, risk
\* level and the whole metrics object of the report a DefaultScorer instance
\* returns for the record, and keeps every baseline flag.
C3_Original ==
  (Returned /\ cls = "AdvancedScorer") =>
    LET b == BaselineReport(scan_data) IN
    /\ \A k \in PassedFields : result[k] = b[k]
    /\ result.pgdn_metrics = b.pgdn_metrics
    /\ FlagsKept(b.flags, result.flags)

\* C3, amended: as stated, except that metrics.scorer_version is the version
\* of the enhanced scorer, "2.0.0-advanced", where the baseline has "1.0.0";
\* every other entry of the metrics is the baseline's.
C3_PassThrough ==
  (Returned /\ cls = "AdvancedScorer") =>
    LET b == BaselineReport(scan_data) IN
    /\ \A k \in PassedFields : result[k] = b[k]
    /\ DOMAIN result.pgdn_metrics = DOMAIN b.pgdn_metrics
    /\ \A k \in DOMAIN b.pgdn_metrics \ {"scorer_version"} : result.pgdn_metrics[k] = b.pgdn_metrics[k]
    /\ b.pgdn_metrics.scorer_version = "1.0.0"
    /\ result.pgdn_metrics.scorer_version = "2.0.0-advanced"
    /\ FlagsKept(b.flags, result.flags)

\* an enhanced report whose score and flags differ from the baseline's, with
\* risk factors and a tls_grade to pass through
C3_Witness ==
  /\ Returned
  /\ cls = "AdvancedScorer"
  /\ ml_adjustments.ml_flags # <<>>
  /\ result.score # base_result.score
  /\ base_result.flags # <<>>
  /\ "tls_grade" \in DOMAIN result.pgdn_metrics
  /\ scan_data.docker_exposure.tag = "val"

\* the ports without port p
Without(ports, p) == SelectSeq(ports, LAMBDA q : q # p)

\* the record r of C4 for the scored record: the same record without port 2375
Clean(sd) == [sd EXCEPT !.open_ports = Val(Without(sd.open_ports.val, 2375))]

\* the scored record is an otherwise-clean record with port 2375 added: without
\* the port its baseline report has score 100 and no flags
CleanPlusDocker(sd) ==
  /\ PortOpen(sd, 2375)
  /\ PortCount(sd) = PortCount(Clean(sd)) + 1
  /\ BaselineReport(Clean(sd)).score = 1000
  /\ BaselineReport(Clean(sd)).flags = <<>>

\* C4 as stated: adding port 2375 to an otherwise-clean record gives the
\* baseline score 65 and grade F.
C4_Original ==
  (Returned /\ cls = "DefaultScorer" /\ CleanPlusDocker(scan_data)) =>
    /\ result.score = BaselineReport(Clean(scan_data)).score - 350
    /\ result.pgdn_metrics.security_grade = "F"

\* C4, amended: the grade is F, and the score is 65 when the clean record has
\* at most four open ports; with five, the added port is the sixth and the
\* port-count penalty of 2 applies as well, giving 63.
C4_DockerOnClean ==
  (Returned /\ cls = "DefaultScorer" /\ CleanPlusDocker(scan_data)) =>
    /\ result.pgdn_metrics.security_grade = "F"
    /\ PortCount(Clean(scan_data)) <= 5
    /\ PortCount(Clean(scan_data)) <= 4 => result.score = 650
    /\ PortCount(Clean(scan_data)) = 5 => result.score = 630

\* port 2375 added to a clean record that has other open ports
C4_Witness ==
  /\ Returned
  /\ cls = "DefaultScorer"
  /\ CleanPlusDocker(scan_data)
  /\ PortCount(scan_data) >= 3
  /\ result.score = 650

\* C5: the score of every returned report is a whole number of points.
C5_IntegerScore == Returned => result.score % 10 = 0

\* the classification of C6, first match wins; the score in tenths
Classified(s, grade) ==
  CASE s >= 950 /\ grade \in {"A+", "A"} -> "MINIMAL"
    [] s >= 850 /\ grade \in {"A+", "A", "B"} -> "LOW"
    [] s >= 700 -> "MODERATE"
    [] s >= 500 -> "HIGH"
    [] OTHER -> "CRITICAL"

\* C6: in every returned report, of either scorer, the risk level is the
\* classification of the score and the security grade of that same report.
C6_RiskLevelOfReport ==
  Returned =>
    result.pgdn_risk_level = Classified(result.score, result.pgdn_metrics.security_grade)

\* C7: score() raises no error, whichever of the optional fields tls, vulns,
\* docker_exposure and open_ports are missing or null.
C7_NoError == exc = "none" /\ pc # "raised"

\* the value of an optional field is missing or null
Missing(x) == x.tag \in {"absent", "none"}

\* one of the database ports is open
DatabaseOpen(sd) == \E p \in {3306, 5432, 27017, 6379, 1433, 1521} : PortOpen(sd, p)

\* the TLS check of C8 as stated: tls absent, issuer absent or "Self-signed",
\* or expiry absent
TlsFailsAsStated(sd) ==
  \/ Missing(sd.tls)
  \/ Missing(sd.tls.val.issuer)
  \/ sd.tls.val.issuer.val = Chars("Self-signed")
  \/ Missing(sd.tls.val.expiry)

\* the same, an empty expiry string counting as no expiry
TlsFails(sd) ==
  \/ TlsFailsAsStated(sd)
  \/ sd.tls.val.expiry.val = <<>>

GradeAsStated(sd) ==
  IF PortOpen(sd, 2375) \/ DatabaseOpen(sd) THEN "F"
  ELSE IF TlsFailsAsStated(sd) THEN "D" ELSE "A+"

GradeByRules(sd) ==
  IF PortOpen(sd, 2375) \/ DatabaseOpen(sd) THEN "F"
  ELSE IF TlsFails(sd) THEN "D" ELSE "A+"

\* a grade F is kept by the step
KeepsF == pgdn_metrics.security_grade = "F" => pgdn_metrics'.security_grade = "F"

\* C8 as stated: no rule changes a grade F, and the returned grade is F when
\* port 2375 or a database port is open, else D when tls is absent, the issuer
\* is absent or "Self-signed" or the expiry is absent, else A+.
C8_Original ==
  [][KeepsF /\ (pc' = "returned" =>
                  result'.pgdn_metrics.security_grade = GradeAsStated(scan_data))]_vars

\* C8, amended: as stated, the TLS check failing also when the expiry is an
\* empty string.
C8_GradeOrder ==
  [][KeepsF /\ (pc' = "returned" =>
                  result'.pgdn_metrics.security_grade = GradeByRules(scan_data))]_vars

\* the docker rule set F, the TLS check failed after it, and F was returned
C8_Witness ==
  /\ Returned
  /\ PortOpen(scan_data, 2375)
  /\ ~DatabaseOpen(scan_data)
  /\ HasFlag(result.flags, "TLS configuration critical issues")
  /\ result.pgdn_metrics.security_grade = "F"

\* the condition of C9 on the record
BestPracticeAsStated(sd) ==
  /\ PortOpen(sd, 443)
  /\ ~PortOpen(sd, 80)
  /\ ~Missing(sd.tls)
  /\ ~Missing(sd.tls.val.issuer)
  /\ sd.tls.val.issuer.val # <<>>
  /\ sd.tls.val.issuer.val # Chars("Self-signed")
  /\ PortCount(sd) <= 3

\* C9: the enhanced scorer gives the best-practice bonus, +5 and its flag,
\* exactly when port 443 is open, port 80 is not, tls has a non-empty issuer
\* other than "Self-signed" and at most 3 ports are open.
C9_BestPracticeBonus ==
  (Returned /\ cls = "AdvancedScorer") =>
    /\ HasFlag(result.flags, "ML: Security best practices detected")
         <=> BestPracticeAsStated(scan_data)
    /\ BestPracticeAsStated(scan_data) =>
         result.ml_analysis.score_adjustment =
           5 + SumAdjustments(SelectSeq(MlFired(scan_data), LAMBDA r : r[2] < 0))

\* C10: an enhanced report with the best-practice flag has neither the
\* baseline's TLS flag nor a tls risk factor CRITICAL.
C10_NoTlsContradiction ==
  (Returned /\ HasFlag(result.flags, "ML: Security best practices detected")) =>
    /\ ~HasFlag(result.flags, "TLS configuration critical issues")
    /\ \A k \in DOMAIN result.pgdn_metrics.risk_factors :
         k = Chars("tls") => result.pgdn_metrics.risk_factors[k] # "CRITICAL"

====
